---- MODULE Spec2Model ----
(***************************************************************************)
(* A model of rusty-bigram (src/src/main.rs): a character-level bigram     *)
(* name model.  clean_name normalises raw names, create_bigram_matrix      *)
(* counts and normalises a 27x27 matrix, likelihood_of_word scores a word, *)
(* and the loop of main samples new names with sample_next_char.           *)
(*                                                                         *)
(* Strings are Rust Strings: sequences of UTF-8 bytes.  chars are code     *)
(* points below 256 (one or two bytes).  An f64 is an exact fraction       *)
(* [n, d] in lowest terms; d = 0 stands for the IEEE specials a division   *)
(* by zero produces (n = 1: +inf, n = 0: NaN).  Rounding is not modelled.  *)
(* A panic is the state pc = "panic"; err holds its cause.  The println!   *)
(* reporting of main (lines 23-25 and 40) changes no state of the model    *)
(* and is left out of Spec; likelihood_of_word has its own specification.  *)
(***************************************************************************)
EXTENDS Integers, Sequences, FiniteSets

VARIABLES names, smoothing, cleaned_names, bigram_matrix, bigram_totals,
          name, current_char, round, word, pos, likelihood, pc, err

vars == <<names, smoothing, cleaned_names, bigram_matrix, bigram_totals,
          name, current_char, round, word, pos, likelihood, pc, err>>

(***************************************************************************)
(* Bounds of the model.                                                    *)
(***************************************************************************)
MaxNames == 2
MaxNameLen == 2
MaxSmoothing2 == 3
MaxDraw == 3
MaxGenLen == 2
MaxRawLen == 3
MaxWordLen == 3
MaxWeight == 1

(***************************************************************************)
(* Program constants.                                                      *)
(***************************************************************************)
AlphabetSize == 27
NumGenerated == 5
Dot == 46
LetterBase == 96

Symbols == 0..(AlphabetSize - 1)

(***************************************************************************)
(* f64 as exact fractions.                                                 *)
(***************************************************************************)
RECURSIVE Gcd(_, _)
Gcd(a, b) == IF b = 0 THEN a ELSE Gcd(b, a % b)

F(n, d) ==
    IF d = 0 THEN [n |-> IF n > 0 THEN 1 ELSE 0, d |-> 0]
    ELSE LET g == Gcd(n, d) IN [n |-> n \div g, d |-> d \div g]

FZero == F(0, 1)
FOne == F(1, 1)
IsFinite(x) == x.d # 0
IsNaN(x) == x.d = 0 /\ x.n = 0

FAdd(x, y) ==
    IF IsNaN(x) \/ IsNaN(y) THEN F(0, 0)
    ELSE IF x.d = 0 \/ y.d = 0 THEN F(1, 0)
    ELSE F(x.n * y.d + y.n * x.d, x.d * y.d)

FMul(x, y) == F(x.n * y.n, x.d * y.d)

\* x / (t as f64) for an integer t >= 0; a zero t gives +inf or NaN
FDivInt(x, t) == F(x.n, x.d * t)

\* smoothing as i64: truncation towards zero of a non-negative f64
AsI64(x) == x.n \div x.d

FLt(x, y) ==
    IF IsNaN(x) \/ IsNaN(y) THEN FALSE
    ELSE IF x.d = 0 THEN FALSE
    ELSE IF y.d = 0 THEN TRUE
    ELSE x.n * y.d < y.n * x.d

FLe(x, y) == ~IsNaN(x) /\ ~IsNaN(y) /\ (x = y \/ FLt(x, y))

(***************************************************************************)
(* Rust strings: UTF-8 bytes, chars(), byte slicing.                       *)
(***************************************************************************)
Utf8(c) == IF c < 128 THEN <<c>> ELSE <<192 + (c \div 64), 128 + (c % 64)>>

RECURSIVE Bytes(_)
Bytes(cs) == IF Len(cs) = 0 THEN <<>> ELSE Utf8(Head(cs)) \o Bytes(Tail(cs))

RECURSIVE Chars(_)
Chars(s) ==
    IF Len(s) = 0 THEN <<>>
    ELSE IF s[1] < 128 THEN <<s[1]>> \o Chars(Tail(s))
    ELSE <<(s[1] - 192) * 64 + (s[2] - 128)>> \o Chars(Tail(Tail(s)))

IsCharBoundary(s, k) ==
    \/ k = 0
    \/ k = Len(s)
    \/ k < Len(s) /\ s[k + 1] \notin 128..191

\* &s[a..b] succeeds iff both ends are in range and on char boundaries
SliceOk(s, a, b) == a <= b /\ b <= Len(s) /\ IsCharBoundary(s, a) /\ IsCharBoundary(s, b)

\* char::is_alphabetic on the code points below 256
is_alphabetic(c) ==
    \/ c \in 65..90
    \/ c \in 97..122
    \/ c \in {170, 181, 186}
    \/ c \in 192..214
    \/ c \in 216..246
    \/ c \in 248..255

\* char::to_lowercase on the code points below 256
to_lowercase(c) ==
    IF c \in 65..90 \/ c \in 192..214 \/ c \in 216..222 THEN c + 32 ELSE c

clean_name(raw) ==
    LET chars == Chars(raw)
        filtered == SelectSeq(chars, is_alphabetic)
        lower == [k \in 1..Len(filtered) |-> to_lowercase(filtered[k])]
    IN <<Dot>> \o Bytes(lower) \o <<Dot>>

(***************************************************************************)
(* The bigram at byte offset p of s, as (first, second) matrix indices;    *)
(* errs is the set of panics the build can raise there (debug builds       *)
(* check the subtraction, release builds wrap and fail at the index).      *)
(***************************************************************************)
char_index(c) == IF c # Dot THEN c - LetterBase ELSE 0

bigram_indices(s, p) ==
    IF ~SliceOk(s, p, p + 2) THEN [errs |-> {"slice"}, first |-> 0, second |-> 0]
    ELSE LET chars == Chars(SubSeq(s, p + 1, p + 2)) IN
         IF Len(chars) < 2 THEN
             [errs |-> IF char_index(chars[1]) < 0 THEN {"overflow", "index"} ELSE {"index"},
              first |-> 0, second |-> 0]
         ELSE LET first == char_index(chars[1])
                  second == char_index(chars[2])
              IN IF first < 0 \/ second < 0
                     THEN [errs |-> {"overflow", "index"}, first |-> 0, second |-> 0]
                 ELSE IF first \notin Symbols \/ second \notin Symbols
                     THEN [errs |-> {"index"}, first |-> 0, second |-> 0]
                 ELSE [errs |-> {}, first |-> first, second |-> second]

(***************************************************************************)
(* create_bigram_matrix, lines 86-107: initialisation and counting.        *)
(***************************************************************************)
InitialCount(s) ==
    [bigram_matrix |-> [a \in Symbols |-> [b \in Symbols |->
                            IF a = 0 /\ b = 0 THEN FZero ELSE s]],
     bigram_totals |-> [a \in Symbols |-> IF a = 0 THEN 0 ELSE AsI64(s)],
     errs |-> {}]

RECURSIVE CountFrom(_, _, _, _)
CountFrom(acc, ns, k, p) ==
    IF acc.errs # {} \/ k > Len(ns) THEN acc
    ELSE IF Len(ns[k]) = 0 THEN [acc EXCEPT !.errs = {"overflow", "slice"}]
    ELSE IF p >= Len(ns[k]) - 1 THEN CountFrom(acc, ns, k + 1, 0)
    ELSE LET b == bigram_indices(ns[k], p) IN
         IF b.errs # {} THEN [acc EXCEPT !.errs = b.errs]
         ELSE CountFrom([acc EXCEPT
                            !.bigram_matrix[b.first][b.second] = FAdd(@, FOne),
                            !.bigram_totals[b.first] = @ + 1],
                        ns, k, p + 1)

count_bigram_matrix(ns, s) == CountFrom(InitialCount(s), ns, 1, 0)

\* lines 108-112: every cell divided by its row's total
normalize_rows(m, totals) ==
    [a \in Symbols |-> [b \in Symbols |-> FDivInt(m[a][b], totals[a])]]

create_bigram_matrix(ns, s) ==
    LET c == count_bigram_matrix(ns, s) IN
    [errs |-> c.errs,
     bigram_matrix |-> IF c.errs = {} THEN normalize_rows(c.bigram_matrix, c.bigram_totals)
                       ELSE <<>>]

(***************************************************************************)
(* sample_next_char: WeightedIndex::new(row).unwrap() and one draw.        *)
(* errs: the panic of the unwrap (or of the sampler's constructor on a     *)
(* non-finite total); outcomes: the indices a draw can return.             *)
(***************************************************************************)
RECURSIVE SumUpTo(_, _)
SumUpTo(row, k) == IF k < 0 THEN FZero ELSE FAdd(SumUpTo(row, k - 1), row[k])

RowSum(row) == SumUpTo(row, AlphabetSize - 1)

\* the total of non-negative finite weights is zero iff every weight is
TotalIsZero(row) == \A b \in Symbols : row[b] = FZero

\* a sampler that walks the cumulative weights and falls back on index 0
sample_first_on_zero(row) ==
    IF \E b \in Symbols : ~IsFinite(row[b])
        THEN [errs |-> {"InvalidWeight", "NonFiniteRange"}, outcomes |-> {}]
    ELSE IF TotalIsZero(row)
        THEN [errs |-> {}, outcomes |-> {0}]
    ELSE [errs |-> {}, outcomes |-> {b \in Symbols : row[b].n > 0}]

sample_next_char(row) ==
    IF \E b \in Symbols : ~IsFinite(row[b])
        THEN [errs |-> {"InvalidWeight", "NonFiniteRange"}, outcomes |-> {}]
    ELSE IF TotalIsZero(row)
        THEN [errs |-> {"AllWeightsZero"}, outcomes |-> {}]
    ELSE [errs |-> {}, outcomes |-> {b \in Symbols : row[b].n > 0}]

int_to_char(index) == IF index = 0 THEN Dot ELSE (index % 256) + LetterBase

(***************************************************************************)
(* Inputs.                                                                 *)
(***************************************************************************)
StringsOver(S, maxlen) == {Bytes(cs) : cs \in UNION {[1..n -> S] : n \in 0..maxlen}}

\* 'a', 'B' and the non-ASCII letter e-acute
CorpusChars == {97, 66, 233}
CorpusNames == StringsOver(CorpusChars, MaxNameLen)
Corpora == UNION {[1..n -> CorpusNames] : n \in 1..MaxNames}
Smoothings == {F(h, 2) : h \in 0..MaxSmoothing2}

NoMatrix == <<>>

Init ==
    /\ names \in Corpora
    /\ smoothing \in Smoothings
    /\ cleaned_names = <<>>
    /\ bigram_matrix = NoMatrix
    /\ bigram_totals = <<>>
    /\ name = <<>>
    /\ current_char = 0
    /\ round = 0
    /\ word = <<>>
    /\ pos = 0
    /\ likelihood = FOne
    /\ pc = "start"
    /\ err = "none"

(***************************************************************************)
(* main, lines 15-16: every line of the file is cleaned.                   *)
(***************************************************************************)
CleanNames ==
    /\ pc = "start"
    /\ cleaned_names' = [k \in 1..Len(names) |-> clean_name(names[k])]
    /\ pc' = "cleaned"
    /\ UNCHANGED <<names, smoothing, bigram_matrix, bigram_totals, name,
                   current_char, round, word, pos, likelihood, err>>

\* create_bigram_matrix up to the end of the counting loop
CountBigrams ==
    /\ pc = "cleaned"
    /\ LET c == count_bigram_matrix(cleaned_names, smoothing) IN
        /\ c.errs = {}
        /\ bigram_matrix' = c.bigram_matrix
        /\ bigram_totals' = c.bigram_totals
    /\ pc' = "counted"
    /\ UNCHANGED <<names, smoothing, cleaned_names, name, current_char, round,
                   word, pos, likelihood, err>>

\* the counting loop panics on a name it cannot slice or index
CountPanic ==
    /\ pc = "cleaned"
    /\ \E e \in count_bigram_matrix(cleaned_names, smoothing).errs : err' = e
    /\ pc' = "panic"
    /\ UNCHANGED <<names, smoothing, cleaned_names, bigram_matrix, bigram_totals,
                   name, current_char, round, word, pos, likelihood>>

\* create_bigram_matrix, the normalisation loop and the return
NormalizeRows ==
    /\ pc = "counted"
    /\ bigram_matrix' = normalize_rows(bigram_matrix, bigram_totals)
    /\ pc' = "built"
    /\ UNCHANGED <<names, smoothing, cleaned_names, bigram_totals, name,
                   current_char, round, word, pos, likelihood, err>>

\* main, lines 28-31: a new name starts at the boundary
StartName ==
    /\ pc \in {"built", "generated"}
    /\ round < NumGenerated
    /\ round' = round + 1
    /\ current_char' = 0
    /\ name' = <<int_to_char(0)>>
    /\ pc' = "sampling"
    /\ UNCHANGED <<names, smoothing, cleaned_names, bigram_matrix, bigram_totals,
                   word, pos, likelihood, err>>

\* main, lines 33-38: one draw that returns next_char
SampleDraw(next_char) ==
    /\ pc = "sampling"
    /\ next_char \in sample_next_char(bigram_matrix[current_char]).outcomes
    /\ next_char = 0 \/ (next_char <= MaxDraw /\ Len(name) <= MaxGenLen)
    /\ current_char' = next_char
    /\ name' = Append(name, int_to_char(next_char))
    /\ pc' = IF int_to_char(next_char) = Dot THEN "generated" ELSE "sampling"
    /\ UNCHANGED <<names, smoothing, cleaned_names, bigram_matrix, bigram_totals,
                   round, word, pos, likelihood, err>>

\* main, line 33: the unwrap inside sample_next_char panics
SamplePanic ==
    /\ pc = "sampling"
    /\ \E e \in sample_next_char(bigram_matrix[current_char]).errs : err' = e
    /\ pc' = "panic"
    /\ UNCHANGED <<names, smoothing, cleaned_names, bigram_matrix, bigram_totals,
                   name, current_char, round, word, pos, likelihood>>

Next ==
    \/ CleanNames
    \/ CountBigrams
    \/ CountPanic
    \/ NormalizeRows
    \/ StartName
    \/ \E next_char \in 0..MaxDraw : SampleDraw(next_char)
    \/ SamplePanic

Spec == Init /\ [][Next]_vars

\* the sampling loop is live: main runs on, and a draw is a weighted random
\* choice, so an outcome of positive weight offered again and again is taken
FairSpec == Spec /\ WF_vars(Next) /\ SF_vars(SampleDraw(0))

(***************************************************************************)
(* clean_name on its own: one raw string in, one normalised name out.      *)
(***************************************************************************)
\* 'a', 'Z', '3', '!', ' ', '.', e-acute, E-acute
RawChars == {97, 90, 51, 33, 32, 46, 233, 201}

InitClean ==
    /\ names \in {<<raw>> : raw \in StringsOver(RawChars, MaxRawLen)}
    /\ smoothing = FOne
    /\ cleaned_names = <<>>
    /\ bigram_matrix = NoMatrix
    /\ bigram_totals = <<>>
    /\ name = <<>>
    /\ current_char = 0
    /\ round = 0
    /\ word = <<>>
    /\ pos = 0
    /\ likelihood = FOne
    /\ pc = "start"
    /\ err = "none"

NextClean == CleanNames

SpecClean == InitClean /\ [][NextClean]_vars

(***************************************************************************)
(* likelihood_of_word, one loop iteration per step.                        *)
(***************************************************************************)
\* '.', 'a', 'b', 'z', e-acute
ScoreChars == {46, 97, 98, 122, 233}
ScoreWords == StringsOver(ScoreChars, MaxWordLen)
ScoreMatrices ==
    {create_bigram_matrix(<<clean_name(raw)>>, s).bigram_matrix :
        raw \in StringsOver({97, 98}, MaxNameLen), s \in Smoothings}

InitScore ==
    /\ word \in ScoreWords
    /\ bigram_matrix \in ScoreMatrices
    /\ names = <<>>
    /\ smoothing = FOne
    /\ cleaned_names = <<>>
    /\ bigram_totals = <<>>
    /\ name = <<>>
    /\ current_char = 0
    /\ round = 0
    /\ pos = 0
    /\ likelihood = FOne
    /\ pc = "score"
    /\ err = "none"

\* line 156: the accumulator times the cell of the bigram
likelihood_transposed(l, m, b) == FMul(l, m[b.second][b.first])
likelihood_step(l, m, b) == FMul(l, m[b.first][b.second])

\* lines 144-145: the accumulator and the loop bound word.len() - 1
ScoreEnter ==
    /\ pc = "score"
    /\ Len(word) >= 1
    /\ likelihood' = FOne
    /\ pos' = 0
    /\ pc' = "scoring"
    /\ UNCHANGED <<names, smoothing, cleaned_names, bigram_matrix, bigram_totals,
                   name, current_char, round, word, err>>

\* line 145 on the empty word: 0usize - 1 panics in a debug build; a release
\* build wraps it and panics at the slice &word[0..2] of line 146
ScoreUnderflow ==
    /\ pc = "score"
    /\ Len(word) = 0
    /\ err' \in {"overflow", "slice"}
    /\ pc' = "panic"
    /\ UNCHANGED <<names, smoothing, cleaned_names, bigram_matrix, bigram_totals,
                   name, current_char, round, word, pos, likelihood>>

\* lines 146-156: one bigram
ScoreStep ==
    /\ pc = "scoring"
    /\ pos < Len(word) - 1
    /\ LET b == bigram_indices(word, pos) IN
        /\ b.errs = {}
        /\ likelihood' = likelihood_step(likelihood, bigram_matrix, b)
    /\ pos' = pos + 1
    /\ UNCHANGED <<names, smoothing, cleaned_names, bigram_matrix, bigram_totals,
                   name, current_char, round, word, pc, err>>

\* lines 146-156: the slice or an index panics
ScorePanic ==
    /\ pc = "scoring"
    /\ pos < Len(word) - 1
    /\ err' \in bigram_indices(word, pos).errs
    /\ pc' = "panic"
    /\ UNCHANGED <<names, smoothing, cleaned_names, bigram_matrix, bigram_totals,
                   name, current_char, round, word, pos, likelihood>>

\* line 158
ScoreReturn ==
    /\ pc = "scoring"
    /\ pos >= Len(word) - 1
    /\ pc' = "scored"
    /\ UNCHANGED <<names, smoothing, cleaned_names, bigram_matrix, bigram_totals,
                   name, current_char, round, word, pos, likelihood, err>>

NextScore ==
    \/ ScoreEnter
    \/ ScoreUnderflow
    \/ ScoreStep
    \/ ScorePanic
    \/ ScoreReturn

SpecScore == InitScore /\ [][NextScore]_vars

(***************************************************************************)
(* The sampling loop of main (lines 29-39) on any matrix of finite         *)
(* weights: one row, dead, is all zero, the others carry the weights w.    *)
(***************************************************************************)
WeightRow(w) == [b \in Symbols |-> IF b <= MaxDraw THEN F(w[b], 1) ELSE FZero]
ZeroRow == [b \in Symbols |-> FZero]
SampleMatrices ==
    {[a \in Symbols |-> IF a = dead THEN ZeroRow ELSE WeightRow(w)] :
        w \in [0..MaxDraw -> 0..MaxWeight], dead \in 0..(MaxDraw + 1)}

InitSample ==
    /\ bigram_matrix \in SampleMatrices
    /\ name = <<int_to_char(0)>>
    /\ current_char = 0
    /\ round = 1
    /\ pc = "sampling"
    /\ names = <<>>
    /\ smoothing = FOne
    /\ cleaned_names = <<>>
    /\ bigram_totals = <<>>
    /\ word = <<>>
    /\ pos = 0
    /\ likelihood = FOne
    /\ err = "none"

NextSample ==
    \/ \E next_char \in 0..MaxDraw : SampleDraw(next_char)
    \/ SamplePanic

SpecSample == InitSample /\ [][NextSample]_vars

(***************************************************************************)
(* Properties.                                                             *)
(***************************************************************************)
Counted == pc = "counted"
Built == pc \in {"built", "sampling", "generated"}

\* C1: for every non-empty corpus and every smoothing >= 0, each row of the
\* returned matrix sums to 1: the divisor of row a, bigram_totals[a] after
\* counting, equals the sum of the 27 cells of row a before the division.
C1_RowsSumToOne ==
    /\ Counted => \A a \in Symbols : RowSum(bigram_matrix[a]) = F(bigram_totals[a], 1)
    /\ pc = "built" => \A a \in Symbols : RowSum(bigram_matrix[a]) = FOne

\* C2: for every corpus, names of empty content ("..") included, cell (0,0)
\* of the returned matrix is exactly 0.
C2_BoundaryCellZero == Built => bigram_matrix[0][0] = FZero

\* C3: a generated name never holds two consecutive boundary symbols: the
\* first symbol drawn from state 0 is never the boundary.
C3_NoDoubleBoundary ==
    pc \in {"sampling", "generated"} =>
        \A k \in 1..(Len(name) - 1) : ~(name[k] = Dot /\ name[k + 1] = Dot)

\* C4: with smoothing > 0 the generation loop always terminates: the
\* boundary is eventually drawn, the loop breaks there and the boundary is
\* the last character of the name.
C4_GenerationTerminates ==
    (pc = "sampling" /\ FLt(FZero, smoothing))
        ~> (pc = "generated" /\ name[Len(name)] = Dot)

\* C10: with smoothing > 0, whole or not, the divisor bigram_totals[a] is
\* non-zero for every row a when the rows are divided, and row 0's is >= 1.
C10_DivisorsNonZero ==
    (Counted /\ FLt(FZero, smoothing)) =>
        /\ \A a \in Symbols : bigram_totals[a] # 0
        /\ bigram_totals[0] >= 1

\* the observed counts of a corpus: the counting loop without smoothing mass
Observed(ns) == count_bigram_matrix(ns, FZero)

\* C9: for a fixed corpus and smoothing constants s1 < s2, every bigram with
\* zero observed count is more probable under s2 than under s1, and every
\* bigram that makes up most of its row's observed counts is less probable
\* or equally probable under s2; in every row, row 0 included.  (Compared
\* where both probabilities are numbers: a cell of a row divided by a zero
\* total is left out.)
C9_SmoothingMonotone ==
    pc = "built" =>
        \A s2 \in Smoothings : FLt(smoothing, s2) =>
            LET m2 == create_bigram_matrix(cleaned_names, s2).bigram_matrix
                obs == Observed(cleaned_names)
            IN \A a \in Symbols : \A b \in Symbols :
                (IsFinite(bigram_matrix[a][b]) /\ IsFinite(m2[a][b])) =>
                    /\ obs.bigram_matrix[a][b] = FZero
                           => FLt(bigram_matrix[a][b], m2[a][b])
                    /\ 2 * obs.bigram_matrix[a][b].n > obs.bigram_totals[a]
                           => FLe(m2[a][b], bigram_matrix[a][b])

\* the 27-symbol alphabet: '.', 'a'..'z'
InAlphabet(c) == c = Dot \/ c \in 97..122

\* C5: for every raw string, clean_name returns a string of length >= 2 that
\* starts and ends with '.' and holds only characters of the alphabet.
C5_CleanNameNormalized ==
    pc = "cleaned" =>
        \A k \in 1..Len(cleaned_names) :
            LET cs == Chars(cleaned_names[k]) IN
            /\ Len(cs) >= 2
            /\ cs[1] = Dot
            /\ cs[Len(cs)] = Dot
            /\ \A q \in 1..Len(cs) : InAlphabet(cs[q])

\* idx of the claim: 0 for '.', the 1-based position in a..z of a letter
AlphabetIndex(c) == IF c = Dot THEN 0 ELSE c - 97 + 1

RECURSIVE PathProduct(_, _, _)
PathProduct(w, m, k) ==
    IF k = 0 THEN FOne
    ELSE FMul(PathProduct(w, m, k - 1),
              m[AlphabetIndex(w[k])][AlphabetIndex(w[k + 1])])

AlphabetWord(w) == Len(w) >= 2 /\ \A q \in 1..Len(w) : InAlphabet(w[q])

\* C6: for every word w of length >= 2 over the alphabet and every matrix M,
\* likelihood_of_word(w, M) is the product over the adjacent pairs of w, each
\* once and in order, of M[idx(w[i])][idx(w[i+1])], starting from 1: after
\* pos iterations the accumulator is the product of the first pos pairs, the
\* loop ends after len(w) - 1 of them, and it never panics.
C6_LikelihoodIsPathProduct ==
    AlphabetWord(word) =>
        /\ pc # "panic"
        /\ pc \in {"scoring", "scored"} =>
               /\ pos <= Len(word) - 1
               /\ likelihood = PathProduct(word, bigram_matrix, pos)
        /\ pc = "scored" => pos = Len(word) - 1

\* a scored word ".ab"-like: three different symbols, a product of two
\* different cells that is neither 0 nor 1
C6_Witness ==
    /\ pc = "scored"
    /\ AlphabetWord(word)
    /\ Len(word) = 3
    /\ word[1] # word[2] /\ word[2] # word[3] /\ word[1] # word[3]
    /\ IsFinite(likelihood)
    /\ likelihood \notin {FZero, FOne}
    /\ bigram_matrix[AlphabetIndex(word[1])][AlphabetIndex(word[2])]
           # bigram_matrix[AlphabetIndex(word[2])][AlphabetIndex(word[1])]

\* C7: for every word of fewer than 2 characters likelihood_of_word returns
\* 1.0 and raises no error.
C7_ShortWordIsOne ==
    Len(Chars(word)) < 2 =>
        /\ pc # "panic"
        /\ pc = "scored" => likelihood = FOne

ZeroWeights == pc = "sampling" /\ RowSum(bigram_matrix[current_char]) = FZero

====
